---- MODULE Spec2Model ----
(***************************************************************************)
(* A model of the image converter's backend:                               *)
(*   src-tauri/src/lib.rs              convert_image, convert_images_batch *)
(*   src-tauri/src/image_processor.rs  load_image, load_heic,              *)
(*                                     load_heic_thumbnail,                *)
(*                                     apply_exif_orientation,             *)
(*                                     estimate_size                       *)
(* Four specifications share the variables; each one holds the parts it    *)
(* does not exercise at their idle values:                                 *)
(*   Spec          the two conversion commands (single and batch)          *)
(*   SpecHeic      load_heic_thumbnail with load_heic                      *)
(*   SpecExif      load_image with apply_exif_orientation                  *)
(*   SpecEstimate  estimate_size                                           *)
(***************************************************************************)
EXTENDS Integers, Sequences, FiniteSets, TLC

VARIABLES
    \* ---- conversion commands (lib.rs) ----
    mode,           \* "single" (convert_image) | "batch" (convert_images_batch) | "off"
    items,          \* the request's items: <<[file_id, path, output_path]>>
    target_format,  \* settings.target_format
    files,          \* the file system: path -> "none" | "img" | "partial"
    pc,             \* position of each job (of the single call: job 1)
    img,            \* each job's decoded buffer: None or Some(content)
    saved,          \* the jobs whose save_image returned Ok
    events,         \* progress events the sink received: {[file_id, progress]}
    emitFailed,     \* emits whose delivery failed: {[file_id, progress]}
    slots,          \* the collect's index-addressed slots: index -> <<outcome>>
    completion,     \* the order in which jobs completed
    response,       \* what the command returned
    sinkAccepts,    \* the progress values the sink takes in this run
    \* ---- load_heic_thumbnail and load_heic (image_processor.rs) ----
    hpc,            \* position in load_heic_thumbnail ("idle" when not called)
    max_size,       \* load_heic_thumbnail's max_size
    heicFile,       \* what the HEIC file at path holds (its primary image)
    thumb_count,    \* handle.number_of_thumbnails()
    thumbPlane,     \* the decoded thumbnail's interleaved plane: None or Some
    fastFailure,    \* the failure the fast path ran into, "none" without one
    fullImage,      \* what load_heic returned in the fallback: None or Some
    hresult,        \* what load_heic_thumbnail returned
    \* ---- load_image and apply_exif_orientation (image_processor.rs) ----
    xpc,            \* position in load_image ("idle" when not called)
    xext,           \* the extension of path, as written
    xdecoded,       \* what decoding the file yields: None or Some(image)
    xexif,          \* what reading the file's EXIF data yields
    ximg,           \* load_image's img: None or Some(image)
    xresult,        \* what load_image returned
    \* ---- estimate_size (image_processor.rs) ----
    est_width,      \* width
    est_height,     \* height
    est_format,     \* target_format
    est_calls       \* the calls made: <<[quality, bytes]>>

convVars == <<mode, items, target_format, files, pc, img, saved, events, emitFailed,
              slots, completion, response, sinkAccepts>>

heicVars == <<hpc, max_size, heicFile, thumb_count, thumbPlane, fastFailure,
              fullImage, hresult>>

exifVars == <<xpc, xext, xdecoded, xexif, ximg, xresult>>

estVars == <<est_width, est_height, est_format, est_calls>>

vars == <<convVars, heicVars, exifVars, estVars>>

(***************************************************************************)
(* Bounds                                                                  *)
(***************************************************************************)
MaxItems == 3    \* items of a batch
MaxWidth == 2    \* width of a decoded HEIC plane, in pixels
MaxHeight == 2   \* height of a decoded HEIC plane, in rows
MaxPad == 1      \* padding bytes at the end of a plane's row
MaxSize == 2     \* load_heic_thumbnail's max_size
MaxThumbs == 2   \* embedded thumbnails of a HEIC file
MaxSide == 2     \* width and height of an image to orient
MaxTag == 9      \* value of the EXIF orientation field
MaxDim == 7      \* width and height passed to estimate_size

(***************************************************************************)
(* Option and Result values                                                *)
(***************************************************************************)
None == [some |-> FALSE]
Some(x) == [some |-> TRUE, val |-> x]
Ok(x) == [ok |-> TRUE, val |-> x]
Err(e) == [ok |-> FALSE, err |-> e]

(***************************************************************************)
(* The conversion commands                                                 *)
(***************************************************************************)

\* The paths of the model's file system. "a" holds a decodable image; "b",
\* "c" and "o" do not exist; "c" lies in a directory that does not exist, so
\* that no file can be created there.
Paths == {"a", "b", "c", "o"}
InitFiles == [p \in Paths |-> IF p = "a" THEN "img" ELSE "none"]
Creatable(p) == p # "c"

\* Input paths of the requests: an image and a missing file. Output paths: the
\* missing input (a job may create what another job reads), a path that is
\* nobody's input, and the path that cannot be created.
InputPaths == {"a", "b"}
OutputPaths == {"b", "o", "c"}

FileIds == <<"A", "B", "C", "D", "E">>
Formats == {"jpeg", "png", "webp"}

\* The request's items (BatchConversionItem); the item at position i carries
\* the i-th file id, so that the ids tell the positions apart.
ItemsOfLen(n) ==
    { [i \in 1..n |-> [file_id |-> FileIds[i], path |-> io[i][1], output_path |-> io[i][2]]] :
        io \in [1..n -> InputPaths \X OutputPaths] }

\* match settings.target_format.as_str() { "jpeg" => .., "png" => .., _ => Err }
FormatOf(fmt) ==
    IF fmt = "jpeg" THEN Ok("Jpeg")
    ELSE IF fmt = "png" THEN Ok("Png")
    ELSE Err("Unsupported format")

\* ImageProcessor::load_image(&path).map_err(..) as the commands see it: the
\* decoded buffer, or the error of a file that is missing or not (yet) a
\* whole image.
LoadImage(fs, path) ==
    IF fs[path] = "img" THEN Ok(fs[path]) ELSE Err("Failed to open image")

\* Whether the sink takes the event. The sink is the GUI shell's event
\* transport; which progress values it takes is fixed for a run.
Delivered(ev) == ev.progress \in sinkAccepts

\* app_handle.emit("conversion_progress", ConversionProgress {..}): the sink
\* takes the event, or the delivery fails.
Emit(ev) ==
    /\ events' = IF Delivered(ev) THEN events \cup {ev} ELSE events
    /\ emitFailed' = IF Delivered(ev) THEN emitFailed ELSE emitFailed \cup {ev}

\* A variant of AfterEmit: the emit's Result is propagated with `?`.
AfterEmitPropagated(delivered) == IF delivered THEN "continue" ELSE "return"

\* .ok() after the emit: the Result becomes an Option that is dropped, so the
\* statement never returns from the job, delivered or not.
AfterEmit(delivered) == "continue"

\* A variant of BatchResultOf: the failure arm still reports the output path.
BatchResultKeepsPath(item, result) ==
    IF result.ok
    THEN [file_id |-> item.file_id, success |-> TRUE,
          output_path |-> Some(result.val), error |-> None]
    ELSE [file_id |-> item.file_id, success |-> FALSE,
          output_path |-> Some(item.output_path), error |-> Some(result.err)]

\* The match on the closure's result that builds a BatchConversionResult.
BatchResultOf(item, result) ==
    IF result.ok
    THEN [file_id |-> item.file_id, success |-> TRUE,
          output_path |-> Some(result.val), error |-> None]
    ELSE [file_id |-> item.file_id, success |-> FALSE,
          output_path |-> None, error |-> Some(result.err)]

\* A variant of Collect: outcomes are appended as the jobs complete.
CollectInCompletionOrder(sl, i, r) ==
    LET k == CHOOSE k \in DOMAIN sl : sl[k] = <<>> /\ \A j \in 1..(k - 1) : sl[j] # <<>>
    IN  [sl EXCEPT ![k] = Append(@, r)]

\* A variant of Collect: the first failure makes every later outcome a failure
\* (a short-circuiting collect).
CollectFailFast(sl, i, r) ==
    IF \E k \in DOMAIN sl : sl[k] # <<>> /\ ~sl[k][1].success
    THEN [sl EXCEPT ![i] = Append(@, [r EXCEPT !.success = FALSE, !.output_path = None,
                                               !.error = Some("Batch aborted")])]
    ELSE [sl EXCEPT ![i] = Append(@, r)]

\* .par_iter().map(..).collect(): an indexed parallel iterator; the outcome of
\* the item at position i lands at position i of the collected Vec.
Collect(sl, i, r) == [sl EXCEPT ![i] = Append(@, r)]

\* A batch job's closure returns: its outcome is built and collected.
FinishJob(i, result) ==
    /\ slots' = Collect(slots, i, BatchResultOf(items[i], result))
    /\ completion' = Append(completion, i)
    /\ pc' = [pc EXCEPT ![i] = "done"]

Jobs == DOMAIN items

\* The conversion commands leave the other parts alone.
otherThanConv == <<heicVars, exifVars, estVars>>

ConvInit ==
    /\ mode \in {"single", "batch"}
    /\ items \in IF mode = "single" THEN ItemsOfLen(1)
                 ELSE UNION { ItemsOfLen(n) : n \in 0..MaxItems }
    /\ target_format \in Formats
    /\ sinkAccepts \in SUBSET {50, 100}
    /\ files = InitFiles
    /\ pc = [i \in DOMAIN items |-> "start"]
    /\ img = [i \in DOMAIN items |-> None]
    /\ saved = {}
    /\ events = {}
    /\ emitFailed = {}
    /\ slots = [i \in DOMAIN items |-> <<>>]
    /\ completion = <<>>
    /\ response = [kind |-> "pending"]

ConvIdle ==
    /\ mode = "off" /\ items = <<>> /\ target_format = "jpeg" /\ sinkAccepts = {}
    /\ files = InitFiles /\ pc = <<>> /\ img = <<>> /\ saved = {}
    /\ events = {} /\ emitFailed = {} /\ slots = <<>> /\ completion = <<>>
    /\ response = [kind |-> "pending"]

---------------------------------------------------------------------------
\* convert_images_batch, lib.rs 180-240. The jobs run on rayon's pool; their
\* steps interleave in any order. An emit touches nothing another job reads,
\* so it is taken in one step with the statement before it.

\* The format match at the head of the command: an unsupported format returns
\* before any job runs; otherwise the jobs are handed to the pool.
BatchStart ==
    /\ UNCHANGED otherThanConv
    /\ mode = "batch" /\ response.kind = "pending"
    /\ \A i \in Jobs : pc[i] = "start"
    /\ IF FormatOf(target_format).ok
       THEN /\ pc' = [i \in Jobs |-> "load"]
            /\ UNCHANGED response
       ELSE /\ response' = [kind |-> "Err", error |-> FormatOf(target_format).err]
            /\ UNCHANGED pc
    /\ UNCHANGED <<mode, items, target_format, files, img, events, emitFailed,
                   slots, completion, sinkAccepts, saved>>

\* let img = ImageProcessor::load_image(&item.path).map_err(..)?;
\* app_handle.emit(.. progress: 50 ..).ok();
BatchLoad(i) ==
    /\ UNCHANGED otherThanConv
    /\ mode = "batch" /\ pc[i] = "load"
    /\ LET r == LoadImage(files, items[i].path)
           ev == [file_id |-> items[i].file_id, progress |-> 50]
       IN  IF r.ok
           THEN /\ img' = [img EXCEPT ![i] = Some(r.val)]
                /\ Emit(ev)
                /\ IF AfterEmit(Delivered(ev)) = "continue"
                   THEN pc' = [pc EXCEPT ![i] = "save"] /\ UNCHANGED <<slots, completion>>
                   ELSE FinishJob(i, Err("Failed to emit event"))
           ELSE /\ FinishJob(i, r)
                /\ UNCHANGED <<img, events, emitFailed>>
    /\ UNCHANGED <<mode, items, target_format, files, response, sinkAccepts, saved>>

\* ImageProcessor::save_image(..).map_err(..)?  The output file is created
\* (and truncated), or the job fails.
BatchSave(i) ==
    /\ UNCHANGED otherThanConv
    /\ mode = "batch" /\ pc[i] = "save"
    /\ IF Creatable(items[i].output_path)
       THEN /\ files' = [files EXCEPT ![items[i].output_path] = "partial"]
            /\ pc' = [pc EXCEPT ![i] = "write"]
            /\ UNCHANGED <<slots, completion>>
       ELSE /\ FinishJob(i, Err("Failed to save image"))
            /\ UNCHANGED files
    /\ UNCHANGED <<mode, items, target_format, img, events, emitFailed, response,
                   sinkAccepts, saved>>

\* The write of the encoded bytes completes;
\* app_handle.emit(.. progress: 100 ..).ok(); Ok(item.output_path.clone())
BatchWrite(i) ==
    /\ UNCHANGED otherThanConv
    /\ mode = "batch" /\ pc[i] = "write"
    /\ LET ev == [file_id |-> items[i].file_id, progress |-> 100] IN
         /\ files' = [files EXCEPT ![items[i].output_path] = "img"]
         /\ saved' = saved \cup {i}
         /\ Emit(ev)
         /\ IF AfterEmit(Delivered(ev)) = "continue"
            THEN FinishJob(i, Ok(items[i].output_path))
            ELSE FinishJob(i, Err("Failed to emit event"))
    /\ UNCHANGED <<mode, items, target_format, img, response, sinkAccepts>>

\* Ok(results): every job has ended and the collected Vec is returned.
BatchReturn ==
    /\ UNCHANGED otherThanConv
    /\ mode = "batch" /\ response.kind = "pending"
    /\ FormatOf(target_format).ok
    /\ \A i \in Jobs : pc[i] = "done"
    /\ response' = [kind |-> "Ok",
                    value |-> [k \in 1..Len(items) |-> slots[k][1]]]
    /\ UNCHANGED <<mode, items, target_format, files, pc, img, events, emitFailed,
                   slots, completion, sinkAccepts, saved>>

---------------------------------------------------------------------------
\* convert_image, lib.rs 141-176: one job, its steps in the order of the code.

\* A return of the command.
SingleReturn(r) ==
    /\ response' = r
    /\ pc' = [pc EXCEPT ![1] = "done"]

\* let img = ImageProcessor::load_image(&path).map_err(..)?;
SingleLoad ==
    /\ UNCHANGED otherThanConv
    /\ mode = "single" /\ pc[1] = "start"
    /\ LET r == LoadImage(files, items[1].path) IN
       IF r.ok
       THEN /\ img' = [img EXCEPT ![1] = Some(r.val)]
            /\ pc' = [pc EXCEPT ![1] = "emit50"]
            /\ UNCHANGED response
       ELSE /\ SingleReturn([kind |-> "Err", error |-> r.err])
            /\ UNCHANGED img
    /\ UNCHANGED <<mode, items, target_format, files, events, emitFailed, slots,
                   completion, sinkAccepts, saved>>

\* app_handle.emit(.. progress: 50 ..).ok();
SingleEmit50 ==
    /\ UNCHANGED otherThanConv
    /\ mode = "single" /\ pc[1] = "emit50"
    /\ LET ev == [file_id |-> items[1].file_id, progress |-> 50] IN
         /\ Emit(ev)
         /\ IF AfterEmit(Delivered(ev)) = "continue"
            THEN pc' = [pc EXCEPT ![1] = "format"] /\ UNCHANGED response
            ELSE SingleReturn([kind |-> "Err", error |-> "Failed to emit event"])
    /\ UNCHANGED <<mode, items, target_format, files, img, slots, completion,
                   sinkAccepts, saved>>

\* let format = match settings.target_format.as_str() {..}: after the load
\* and the first emit.
SingleFormat ==
    /\ UNCHANGED otherThanConv
    /\ mode = "single" /\ pc[1] = "format"
    /\ IF FormatOf(target_format).ok
       THEN pc' = [pc EXCEPT ![1] = "save"] /\ UNCHANGED response
       ELSE SingleReturn([kind |-> "Err", error |-> FormatOf(target_format).err])
    /\ UNCHANGED <<mode, items, target_format, files, img, events, emitFailed,
                   slots, completion, sinkAccepts, saved>>

\* ImageProcessor::save_image(..).map_err(..)?  The output file is created
\* (and truncated), or the command fails.
SingleSave ==
    /\ UNCHANGED otherThanConv
    /\ mode = "single" /\ pc[1] = "save"
    /\ IF Creatable(items[1].output_path)
       THEN /\ files' = [files EXCEPT ![items[1].output_path] = "partial"]
            /\ pc' = [pc EXCEPT ![1] = "write"]
            /\ UNCHANGED response
       ELSE /\ SingleReturn([kind |-> "Err", error |-> "Failed to save image"])
            /\ UNCHANGED files
    /\ UNCHANGED <<mode, items, target_format, img, events, emitFailed, slots,
                   completion, sinkAccepts, saved>>

\* The write of the encoded bytes completes.
SingleWrite ==
    /\ UNCHANGED otherThanConv
    /\ mode = "single" /\ pc[1] = "write"
    /\ files' = [files EXCEPT ![items[1].output_path] = "img"]
    /\ saved' = saved \cup {1}
    /\ pc' = [pc EXCEPT ![1] = "emit100"]
    /\ UNCHANGED <<mode, items, target_format, img, events, emitFailed, slots,
                   completion, response, sinkAccepts>>

\* app_handle.emit(.. progress: 100 ..).ok(); Ok(output_path)
SingleEmit100 ==
    /\ UNCHANGED otherThanConv
    /\ mode = "single" /\ pc[1] = "emit100"
    /\ LET ev == [file_id |-> items[1].file_id, progress |-> 100] IN
         /\ Emit(ev)
         /\ IF AfterEmit(Delivered(ev)) = "continue"
            THEN SingleReturn([kind |-> "Ok", value |-> items[1].output_path])
            ELSE SingleReturn([kind |-> "Err", error |-> "Failed to emit event"])
    /\ UNCHANGED <<mode, items, target_format, files, img, slots, completion,
                   sinkAccepts, saved>>

(***************************************************************************)
(* load_heic and load_heic_thumbnail, image_processor.rs 32-121            *)
(***************************************************************************)

\* The bytes of a decoded plane: byte k of the plane holds k (mod 256), so that
\* a byte of the output tells where in the plane it came from.
PlaneData(len) == [k \in 1..len |-> (k - 1) % 256]

\* The interleaved RGBA planes the decoder may hand out: width, height, a
\* stride of at least width*4 bytes, and the data: height full rows, or the
\* last row without its padding, or (a malformed plane) one byte less.
Planes ==
    { [width |-> w, height |-> h, stride |-> w * 4 + pad, data |-> PlaneData(len)] :
        <<w, h, pad, len>> \in
          { q \in (1..MaxWidth) \X (1..MaxHeight) \X (0..MaxPad)
                    \X (0..((MaxWidth * 4 + MaxPad) * MaxHeight)) :
              q[4] \in { (q[1] * 4 + q[3]) * q[2],
                         (q[1] * 4 + q[3]) * (q[2] - 1) + q[1] * 4,
                         (q[1] * 4 + q[3]) * (q[2] - 1) + q[1] * 4 - 1 } } }

\* What the HEIC file holds, as far as reading its primary image goes: the
\* step of load_heic that fails on it, or the plane its decode yields.
HeicFiles ==
    { [fails |-> f, plane |-> None] :
        f \in {"read_from_file", "primary_image_handle", "decode", "interleaved"} }
    \cup { [fails |-> "none", plane |-> Some(pl)] : pl \in Planes }

\* A variant of RowStart: the rows are taken to be packed already.
RowStartPacked(y, stride, width) == y * width * 4

\* let row_start = (y as usize) * stride;
RowStart(y, stride, width) == y * stride

\* let row_end = row_start + (width as usize * 4);
RowEnd(y, stride, width) == RowStart(y, stride, width) + width * 4

\* &data[row_start..row_end]
Slice(data, row_start, row_end) == SubSeq(data, row_start + 1, row_end)

\* load_heic's loop (111-115): for y in 0..height, the row's slice is appended;
\* rows y..height-1 after acc.
RECURSIVE CopyRows(_, _, _)
CopyRows(pl, y, acc) ==
    IF y >= pl.height THEN acc
    ELSE CopyRows(pl, y + 1,
                  acc \o Slice(pl.data, RowStart(y, pl.stride, pl.width),
                               RowEnd(y, pl.stride, pl.width)))

\* The slice of a row that ends after the data panics (slice index out of
\* range).
RowsInBounds(pl) ==
    \A y \in 0..(pl.height - 1) : RowEnd(y, pl.stride, pl.width) <= Len(pl.data)

\* The fast path's loop (56-62): a row is appended only if row_end <=
\* data.len().
RECURSIVE CopyRowsChecked(_, _, _)
CopyRowsChecked(pl, y, acc) ==
    IF y >= pl.height THEN acc
    ELSE CopyRowsChecked(pl, y + 1,
            IF RowEnd(y, pl.stride, pl.width) <= Len(pl.data)
            THEN acc \o Slice(pl.data, RowStart(y, pl.stride, pl.width),
                              RowEnd(y, pl.stride, pl.width))
            ELSE acc)

\* RgbaImage::from_raw(width, height, buf): None when the buffer is too small
\* for width*height pixels of 4 bytes.
FromRaw(width, height, buf) ==
    IF Len(buf) >= width * height * 4
    THEN Some([width |-> width, height |-> height, data |-> buf])
    ELSE None

\* load_heic (87-121) on a file: the first failing step's error, a panic of
\* the row slice, or the packed image.
LoadHeic(file) ==
    IF file.fails = "read_from_file" THEN [kind |-> "Err", error |-> "Failed to read HEIC file"]
    ELSE IF file.fails = "primary_image_handle"
         THEN [kind |-> "Err", error |-> "Failed to get primary image handle"]
    ELSE IF file.fails = "decode" THEN [kind |-> "Err", error |-> "Failed to decode HEIC image"]
    ELSE IF file.fails = "interleaved"
         THEN [kind |-> "Err", error |-> "Failed to get interleaved plane"]
    ELSE LET pl == file.plane.val IN
         IF ~RowsInBounds(pl) THEN [kind |-> "Panic"]
         ELSE LET rgba_image == FromRaw(pl.width, pl.height, CopyRows(pl, 0, <<>>)) IN
              IF rgba_image.some THEN [kind |-> "Ok", image |-> rgba_image.val]
              ELSE [kind |-> "Err", error |-> "Failed to create RGBA image from HEIC data"]

Max(a, b) == IF a >= b THEN a ELSE b

\* (side as f32 * ratio) as u32 with ratio = max_size as f32 / longer as f32:
\* the f32 product lies next to the real side*max_size/longer and the cast
\* truncates, so the result is the real quotient's floor; where the real
\* quotient is a whole number the rounded product may lie just below it, and
\* the cast then yields one less. Both outcomes are kept.
ScaledSides(side, m, longer) ==
    {(side * m) \div longer}
    \cup (IF (side * m) % longer = 0 /\ side * m > 0
          THEN {(side * m) \div longer - 1} ELSE {})

\* round() of a / b for a >= 0, b > 0 (half away from zero).
RoundDiv(a, b) == (2 * a + b) \div (2 * b)

\* img.resize(nwidth, nheight, filter): the image crate keeps the aspect
\* ratio and fits the image into nwidth x nheight; no side gets below 1.
\* The pixels are resampled: the model keeps the dimensions only.
Resize(image, nwidth, nheight) ==
    LET byWidth == nwidth * image.height <= nheight * image.width   \* wratio <= hratio
        rw == IF byWidth THEN nwidth ELSE RoundDiv(image.width * nheight, image.height)
        rh == IF byWidth THEN RoundDiv(image.height * nwidth, image.width) ELSE nheight
    IN  [width |-> Max(rw, 1), height |-> Max(rh, 1), data |-> <<>>]

\* A variant of OnFastPathFailure: the failure is returned as an error.
OnFastPathFailureReported(what) == "return"

\* A failure inside the fast path: every if-let of lines 42-64 that does not
\* match falls out of the nested ifs, to the fallback.
OnFastPathFailure(what) == "fallback"

HeicIdle ==
    /\ hpc = "idle" /\ max_size = 0 /\ heicFile = [fails |-> "none", plane |-> None]
    /\ thumb_count = 0 /\ thumbPlane = None /\ fastFailure = "none"
    /\ fullImage = None /\ hresult = [kind |-> "pending"]

HeicInit ==
    /\ hpc = "open"
    /\ max_size \in 1..MaxSize
    /\ heicFile \in HeicFiles
    /\ thumb_count = 0 /\ thumbPlane = None /\ fastFailure = "none"
    /\ fullImage = None /\ hresult = [kind |-> "pending"]

otherThanHeic == <<convVars, exifVars, estVars>>

\* A step of the fast path failed: to the fallback (or, were the failure
\* reported, out of the function).
FastPathFails(what) ==
    /\ fastFailure' = what
    /\ IF OnFastPathFailure(what) = "fallback"
       THEN hpc' = "fallback" /\ UNCHANGED hresult
       ELSE hpc' = "done" /\ hresult' = [kind |-> "Err", error |-> what]

\* 33-38: HeifContext::read_from_file(path).context(..)?,
\* ctx.primary_image_handle().context(..)?
ThumbOpen ==
    /\ hpc = "open"
    /\ IF heicFile.fails = "read_from_file"
       THEN /\ hresult' = [kind |-> "Err", error |-> "Failed to read HEIC file"]
            /\ hpc' = "done"
       ELSE IF heicFile.fails = "primary_image_handle"
       THEN /\ hresult' = [kind |-> "Err", error |-> "Failed to get primary image handle"]
            /\ hpc' = "done"
       ELSE hpc' = "count" /\ UNCHANGED hresult
    /\ UNCHANGED <<max_size, heicFile, thumb_count, thumbPlane, fastFailure, fullImage>>
    /\ UNCHANGED otherThanHeic

\* 41-42: let thumb_count = handle.number_of_thumbnails(); if thumb_count > 0
ThumbCount ==
    /\ hpc = "count"
    /\ \E n \in 0..MaxThumbs :
         /\ thumb_count' = n
         /\ hpc' = IF n > 0 THEN "ids" ELSE "fallback"
    /\ UNCHANGED <<max_size, heicFile, thumbPlane, fastFailure, fullImage, hresult>>
    /\ UNCHANGED otherThanHeic

\* 43-45: let actual_count = handle.thumbnail_ids(&mut thumb_ids);
\* if actual_count > 0
ThumbIds ==
    /\ hpc = "ids"
    /\ \E actual_count \in 0..thumb_count :
         IF actual_count > 0
         THEN hpc' = "thumbnail" /\ UNCHANGED <<fastFailure, hresult>>
         ELSE FastPathFails("no thumbnail ids")
    /\ UNCHANGED <<max_size, heicFile, thumb_count, thumbPlane, fullImage>>
    /\ UNCHANGED otherThanHeic

\* 46: if let Ok(thumb_handle) = handle.thumbnail(thumb_ids[0])
ThumbHandle ==
    /\ hpc = "thumbnail"
    /\ \E ok \in BOOLEAN :
         IF ok THEN hpc' = "decode" /\ UNCHANGED <<fastFailure, hresult>>
         ELSE FastPathFails("thumbnail handle")
    /\ UNCHANGED <<max_size, heicFile, thumb_count, thumbPlane, fullImage>>
    /\ UNCHANGED otherThanHeic

\* 47-49: if let Ok(thumb_image) = lib_heif.decode(&thumb_handle, ..),
\* if let Some(interleaved) = planes.interleaved
ThumbDecode ==
    /\ hpc = "decode"
    /\ \/ FastPathFails("thumbnail decode") /\ UNCHANGED thumbPlane
       \/ FastPathFails("no interleaved plane") /\ UNCHANGED thumbPlane
       \/ \E pl \in Planes :
            /\ thumbPlane' = Some(pl)
            /\ hpc' = "pack"
            /\ UNCHANGED <<fastFailure, hresult>>
    /\ UNCHANGED <<max_size, heicFile, thumb_count, fullImage>>
    /\ UNCHANGED otherThanHeic

\* 50-66: the rows are copied without their padding; if RgbaImage::from_raw
\* takes the buffer, the thumbnail is returned as it is.
ThumbPack ==
    /\ hpc = "pack"
    /\ LET pl == thumbPlane.val
           rgba_image == FromRaw(pl.width, pl.height, CopyRowsChecked(pl, 0, <<>>))
       IN  IF rgba_image.some
           THEN /\ hresult' = [kind |-> "Ok", image |-> rgba_image.val]
                /\ hpc' = "done"
                /\ UNCHANGED fastFailure
           ELSE FastPathFails("plane data too short")
    /\ UNCHANGED <<max_size, heicFile, thumb_count, thumbPlane, fullImage>>
    /\ UNCHANGED otherThanHeic

\* 74: let img = Self::load_heic(path)?;
FallbackDecode ==
    /\ hpc = "fallback"
    /\ LET r == LoadHeic(heicFile) IN
       IF r.kind = "Ok"
       THEN fullImage' = Some(r.image) /\ hpc' = "resize" /\ UNCHANGED hresult
       ELSE hresult' = r /\ hpc' = "done" /\ UNCHANGED fullImage
    /\ UNCHANGED <<max_size, heicFile, thumb_count, thumbPlane, fastFailure>>
    /\ UNCHANGED otherThanHeic

\* 75-84: the full image is resized if a side exceeds max_size.
FallbackResize ==
    /\ hpc = "resize"
    /\ LET image == fullImage.val
           longer == Max(image.width, image.height)
       IN  IF image.width > max_size \/ image.height > max_size
           THEN \E new_width \in ScaledSides(image.width, max_size, longer),
                   new_height \in ScaledSides(image.height, max_size, longer) :
                  hresult' = [kind |-> "Ok", image |-> Resize(image, new_width, new_height)]
           ELSE hresult' = [kind |-> "Ok", image |-> image]
    /\ hpc' = "done"
    /\ UNCHANGED <<max_size, heicFile, thumb_count, thumbPlane, fastFailure, fullImage>>
    /\ UNCHANGED otherThanHeic

NextHeic ==
    \/ ThumbOpen
    \/ ThumbCount
    \/ ThumbIds
    \/ ThumbHandle
    \/ ThumbDecode
    \/ ThumbPack
    \/ FallbackDecode
    \/ FallbackResize

(***************************************************************************)
(* load_image and apply_exif_orientation, image_processor.rs 9-29, 123-157 *)
(***************************************************************************)

\* The pixel positions of a width x height image.
Coords(width, height) == (0..(width - 1)) \X (0..(height - 1))

\* A decoded image: pixel (x, y) holds y*width + x, so that a pixel of the
\* result tells where in the source it came from.
SourceImage(width, height) ==
    [width |-> width, height |-> height,
     px |-> [c \in Coords(width, height) |-> c[2] * width + c[1]]]

\* The image of the given size that holds each pixel of image at the place
\* Dest sends its position to (out.put_pixel(Dest(x, y), p) for every x, y).
Placed(image, width, height, Dest(_)) ==
    [width |-> width, height |-> height,
     px |-> [c \in Coords(width, height) |->
               image.px[CHOOSE src \in Coords(image.width, image.height) : Dest(src) = c]]]

\* DynamicImage::fliph, flipv, rotate180, rotate90, rotate270 (image crate):
\* flips about the vertical and the horizontal axis and clockwise rotations.
FlipH(image) ==
    Placed(image, image.width, image.height,
           LAMBDA src : <<image.width - 1 - src[1], src[2]>>)
FlipV(image) ==
    Placed(image, image.width, image.height,
           LAMBDA src : <<src[1], image.height - 1 - src[2]>>)
Rotate180(image) ==
    Placed(image, image.width, image.height,
           LAMBDA src : <<image.width - 1 - src[1], image.height - 1 - src[2]>>)
Rotate90(image) ==
    Placed(image, image.height, image.width,
           LAMBDA src : <<image.height - 1 - src[2], src[1]>>)
Rotate270(image) ==
    Placed(image, image.height, image.width,
           LAMBDA src : <<src[2], image.width - 1 - src[1]>>)

\* A variant of OrientationTransform: the arms of 6 and 8 are exchanged.
OrientationTransformSwapped(orientation, image) ==
    CASE orientation = 1 -> image
      [] orientation = 2 -> FlipH(image)
      [] orientation = 3 -> Rotate180(image)
      [] orientation = 4 -> FlipV(image)
      [] orientation = 5 -> FlipH(Rotate90(image))
      [] orientation = 6 -> Rotate270(image)
      [] orientation = 7 -> FlipH(Rotate270(image))
      [] orientation = 8 -> Rotate90(image)
      [] OTHER -> image

\* let transformed = match orientation { 1 => img, 2 => img.fliph(), .. }
OrientationTransform(orientation, image) ==
    CASE orientation = 1 -> image
      [] orientation = 2 -> FlipH(image)
      [] orientation = 3 -> Rotate180(image)
      [] orientation = 4 -> FlipV(image)
      [] orientation = 5 -> FlipH(Rotate90(image))
      [] orientation = 6 -> Rotate90(image)
      [] orientation = 7 -> FlipH(Rotate270(image))
      [] orientation = 8 -> Rotate270(image)
      [] OTHER -> image

\* What reading the EXIF data of the file yields: the file cannot be opened
\* (File::open), read_from_container fails (no EXIF data), there is no
\* Orientation field, its value has no unsigned integer at index 0, or the
\* value.
ExifStates ==
    { [kind |-> k, value |-> 0] : k \in {"open_error", "no_exif", "no_field", "not_uint"} }
    \cup { [kind |-> "orientation", value |-> v] : v \in 0..MaxTag }

\* apply_exif_orientation(path, img), 123-157
ApplyExifOrientation(exif, image) ==
    IF exif.kind = "open_error" THEN Err("No such file or directory")
    ELSE IF exif.kind \in {"no_exif", "no_field", "not_uint"} THEN Ok(image)
    ELSE Ok(OrientationTransform(exif.value, image))

\* The extensions of the paths, and to_lowercase on them.
Extensions == {"jpg", "png", "heic", "heif", "HEIC", ""}
ToLowercase(e) == IF e = "HEIC" THEN "heic" ELSE e

IsHeic(extension) == extension = "heic" \/ extension = "heif"

ExifIdle ==
    /\ xpc = "idle" /\ xext = "" /\ xdecoded = None
    /\ xexif = [kind |-> "no_exif", value |-> 0]
    /\ ximg = None /\ xresult = [kind |-> "pending"]

ExifInit ==
    /\ xpc = "decode"
    /\ xext \in Extensions
    /\ xdecoded \in {None} \cup { Some(SourceImage(w, h)) : w \in 1..MaxSide, h \in 1..MaxSide }
    /\ xexif \in ExifStates
    /\ ximg = None
    /\ xresult = [kind |-> "pending"]

otherThanExif == <<convVars, heicVars, estVars>>

\* 10-21: the extension is lowercased; the HEIC decoder or image::open
\* decodes the file, or load_image returns the error.
LoadImageDecode ==
    /\ xpc = "decode"
    /\ IF xdecoded.some
       THEN ximg' = xdecoded /\ xpc' = "orient" /\ UNCHANGED xresult
       ELSE /\ xresult' = IF IsHeic(ToLowercase(xext))
                          THEN [kind |-> "Err", error |-> "Failed to decode HEIC image"]
                          ELSE [kind |-> "Err", error |-> "Failed to open image"]
            /\ xpc' = "done"
            /\ UNCHANGED ximg
    /\ UNCHANGED <<xext, xdecoded, xexif>>
    /\ UNCHANGED otherThanExif

\* 23-28: if extension != "heic" && extension != "heif"
\*            { img = Self::apply_exif_orientation(path, img)?; }  Ok(img)
LoadImageOrient ==
    /\ xpc = "orient"
    /\ IF ~IsHeic(ToLowercase(xext))
       THEN LET r == ApplyExifOrientation(xexif, ximg.val) IN
            IF r.ok
            THEN ximg' = Some(r.val) /\ xresult' = [kind |-> "Ok", image |-> r.val]
            ELSE xresult' = [kind |-> "Err", error |-> r.err] /\ UNCHANGED ximg
       ELSE xresult' = [kind |-> "Ok", image |-> ximg.val] /\ UNCHANGED ximg
    /\ xpc' = "done"
    /\ UNCHANGED <<xext, xdecoded, xexif>>
    /\ UNCHANGED otherThanExif

NextExif ==
    \/ LoadImageDecode
    \/ LoadImageOrient

(***************************************************************************)
(* estimate_size, image_processor.rs 201-220                               *)
(***************************************************************************)

\* The quality values of the settings (0 to 100).
Qualities == 0..100

\* A variant of EstimateSize: the quality is taken from the wrong end.
EstimateSizeInverted(width, height, tf, quality) ==
    LET pixel_count == width * height
        scaled == pixel_count * (100 + (100 - quality) * 5)
    IN  IF tf = "jpeg" THEN {scaled \div 200}
        ELSE IF tf = "png" THEN {(pixel_count * 7) \div 2}
        ELSE {0}

\* estimate_size(width, height, target_format, quality): the values the
\* call may return. The f64 arithmetic is followed in exact arithmetic, in
\* units of 1/200 byte: bytes_per_pixel = 0.5 + quality/100 * 2.5 is
\* (100 + quality*5)/200. The f64 product lies next to the real one (for
\* pixel counts below 2^32 by less than 1/200) and the cast truncates: the
\* result is the real product's floor; where the real product is a whole
\* number, the rounded one may lie just below it, and the cast then yields
\* one less. Both outcomes are kept. pixel_count * 3.5 is exact in f64.
\* (width * height is a u32 product; the widths and heights of the model stay
\* far below its wrap at 2^32.)
EstimateSize(width, height, tf, quality) ==
    LET pixel_count == width * height
        scaled == pixel_count * (100 + quality * 5)
    IN  IF tf = "jpeg"
        THEN {scaled \div 200}
             \cup (IF scaled % 200 = 0 /\ scaled > 0 THEN {scaled \div 200 - 1} ELSE {})
        ELSE IF tf = "png" THEN {(pixel_count * 7) \div 2}
        ELSE {0}

EstIdle ==
    /\ est_width = 0 /\ est_height = 0 /\ est_format = "" /\ est_calls = <<>>

EstInit ==
    /\ est_width \in 0..MaxDim
    /\ est_height \in 0..MaxDim
    /\ est_format \in {"jpeg", "png", "webp"}
    /\ est_calls = <<>>

otherThanEst == <<convVars, heicVars, exifVars>>

\* A call of estimate_size for the image, at some quality; two calls are
\* kept to be compared.
EstimateSizeCall ==
    /\ Len(est_calls) < 2
    /\ \E quality \in Qualities :
         \E bytes \in EstimateSize(est_width, est_height, est_format, quality) :
            est_calls' = Append(est_calls, [quality |-> quality, bytes |-> bytes])
    /\ UNCHANGED <<est_width, est_height, est_format>>
    /\ UNCHANGED otherThanEst

NextEstimate ==
    \/ EstimateSizeCall

---------------------------------------------------------------------------
Init == ConvInit /\ HeicIdle /\ ExifIdle /\ EstIdle

Next ==
    \/ BatchStart
    \/ \E i \in Jobs : BatchLoad(i)
    \/ \E i \in Jobs : BatchSave(i)
    \/ \E i \in Jobs : BatchWrite(i)
    \/ BatchReturn
    \/ SingleLoad
    \/ SingleEmit50
    \/ SingleFormat
    \/ SingleSave
    \/ SingleWrite
    \/ SingleEmit100

Spec == Init /\ [][Next]_vars

InitHeic == HeicInit /\ ConvIdle /\ ExifIdle /\ EstIdle
SpecHeic == InitHeic /\ [][NextHeic]_vars

InitExif == ExifInit /\ ConvIdle /\ HeicIdle /\ EstIdle
SpecExif == InitExif /\ [][NextExif]_vars

InitEstimate == EstInit /\ ConvIdle /\ HeicIdle /\ ExifIdle
SpecEstimate == InitEstimate /\ [][NextEstimate]_vars

(***************************************************************************)
(* Claims about the conversion commands (checked under Spec)               *)
(***************************************************************************)

\* C1: a batch with a supported format returns as many outcomes as it has
\* items, and the outcome at position i carries the file_id of item i,
\* whatever the order in which the jobs completed.
C1_ResultsInInputOrder ==
    (mode = "batch" /\ response.kind = "Ok") =>
        /\ Len(response.value) = Len(items)
        /\ \A i \in Jobs : response.value[i].file_id = items[i].file_id

\* C1 witness: three jobs succeeded, completed in reverse order, and the batch
\* returned.
C1_ReversedCompletion ==
    /\ mode = "batch" /\ response.kind = "Ok"
    /\ Len(items) = 3 /\ completion = <<3, 2, 1>>
    /\ \A i \in Jobs : response.value[i].success

\* An outcome is a success or a failure, not both and not neither.
WellFormedOutcome(o) ==
    \/ o.success /\ o.output_path.some /\ ~o.error.some
    \/ ~o.success /\ ~o.output_path.some /\ o.error.some

\* C2: every job of a batch yields exactly one outcome (none while it runs,
\* one when it has ended), the outcome is a success or a failure, never both
\* and never neither, and it is a success exactly when the job's decode and
\* its encode both succeeded.
C2_OneOutcomePerJob ==
    mode = "batch" =>
        \A i \in Jobs :
            /\ Len(slots[i]) = (IF pc[i] = "done" THEN 1 ELSE 0)
            /\ pc[i] = "done" =>
                 /\ WellFormedOutcome(slots[i][1])
                 /\ slots[i][1].success <=> (img[i].some /\ i \in saved)

\* C2 witness: a returned batch with a success and a failure in it.
C2_SuccessAndFailure ==
    /\ mode = "batch" /\ response.kind = "Ok"
    /\ \E i, j \in Jobs : response.value[i].success /\ ~response.value[j].success

\* The outcome of a job run alone on the initial files.
AloneOutcome(item) ==
    LET r == LoadImage(InitFiles, item.path) IN
    IF ~r.ok THEN BatchResultOf(item, r)
    ELSE IF Creatable(item.output_path) THEN BatchResultOf(item, Ok(item.output_path))
    ELSE BatchResultOf(item, Err("Failed to save image"))

\* No job writes the file another job reads.
NoSharedPath ==
    \A i, j \in Jobs : i # j => items[i].output_path # items[j].path

\* C3 as claimed: in every batch and every interleaving each job's outcome is
\* the one it would have if it ran alone on the initial files; here by the
\* success flag alone, the least the claim says.
C3_SameAsAlone ==
    mode = "batch" =>
        \A i \in Jobs :
            pc[i] = "done" => slots[i][1].success = AloneOutcome(items[i]).success

\* C3 amended: the same, for the batches in which no job's output path is
\* another job's input path.
C3_SameAsAloneNoSharedPath ==
    (mode = "batch" /\ NoSharedPath) =>
        \A i \in Jobs : pc[i] = "done" => slots[i][1] = AloneOutcome(items[i])

\* C3 witness: three jobs sharing no path, only the second one's input is
\* missing, and the batch returned success, failure, success.
C3_SuccessFailureSuccess ==
    /\ mode = "batch" /\ response.kind = "Ok" /\ NoSharedPath
    /\ Len(items) = 3
    /\ items[1].path = "a" /\ items[2].path = "b" /\ items[3].path = "a"
    /\ response.value[1].success /\ ~response.value[2].success
    /\ response.value[3].success

\* What a job that has ended returns, by its decode, the format and its save
\* alone.
OutcomeByDecodeAndSave(i) ==
    IF ~img[i].some THEN Err("Failed to open image")
    ELSE IF ~FormatOf(target_format).ok THEN Err("Unsupported format")
    ELSE IF i \in saved THEN Ok(items[i].output_path)
    ELSE Err("Failed to save image")

\* C4: a failed delivery of a progress event is swallowed. Whatever emits
\* failed, a job that decoded and saved goes on to its end (a failed emit
\* is never where it stops), its outcome is the one its decode and its save
\* determine, and the file of a saved job is written.
C4_EmitFailureSwallowed ==
    \A i \in Jobs :
        /\ pc[i] = "done" /\ mode = "batch" =>
              slots[i][1] = BatchResultOf(items[i], OutcomeByDecodeAndSave(i))
        /\ pc[i] = "done" /\ mode = "single" =>
              LET r == OutcomeByDecodeAndSave(i) IN
              response = IF r.ok THEN [kind |-> "Ok", value |-> r.val]
                         ELSE [kind |-> "Err", error |-> r.err]
        /\ i \in saved => files[items[i].output_path] # "none"

\* C4 witness: a job ended in success although both of its emits failed.
C4_SuccessWithFailedEmits ==
    \E i \in Jobs :
        /\ pc[i] = "done" /\ i \in saved
        /\ [file_id |-> items[i].file_id, progress |-> 50] \in emitFailed
        /\ [file_id |-> items[i].file_id, progress |-> 100] \in emitFailed
        /\ IF mode = "batch" THEN slots[i][1].success ELSE response.kind = "Ok"

\* C5 as claimed: a request with an unsupported target format is not
\* attempted: nothing is decoded, no progress event is emitted, no file is
\* written and no outcome is produced.
C5_UnsupportedNotAttempted ==
    ~FormatOf(target_format).ok =>
        /\ \A i \in Jobs : ~img[i].some /\ slots[i] = <<>>
        /\ events = {} /\ emitFailed = {}
        /\ files = InitFiles
        /\ response.kind \in {"pending", "Err"}

(***************************************************************************)
(* Claims about load_heic_thumbnail and load_heic (checked under SpecHeic) *)
(***************************************************************************)

\* C6 as claimed: whenever load_heic_thumbnail returns a buffer, by the fast
\* path or by the fallback, its longer side is at most max_size.
C6_LongerSideWithinMaxSize ==
    hresult.kind = "Ok" =>
        Max(hresult.image.width, hresult.image.height) <= max_size

\* C8: a failure inside the fast path is never reported. Once the fast path
\* has failed the call is in the fallback or past it; the call then returns
\* what the full decode of the file yields; and an error the call returns is
\* always the error of the full decode of the file (load_heic's error).
C8_FastPathFailureNotReported ==
    /\ fastFailure # "none" => hpc \in {"fallback", "resize", "done"}
    /\ (hpc = "done" /\ fastFailure # "none") =>
          /\ hresult.kind = LoadHeic(heicFile).kind
          /\ hresult.kind = "Ok" => fullImage = Some(LoadHeic(heicFile).image)
    /\ hresult.kind = "Err" => hresult = LoadHeic(heicFile)

\* C8 witness: the thumbnail's plane was too short for its rows, the fallback
\* ran and the call returned an image.
C8_ShortPlaneFallsBack ==
    /\ hpc = "done" /\ fastFailure = "plane data too short"
    /\ hresult.kind = "Ok" /\ fullImage.some

\* The image holds the plane's rows without their padding: width*height*4
\* bytes, row y being the first width*4 bytes of the plane's row y, and no
\* byte of it coming from a row's padding.
StrideStripped(image, pl) ==
    /\ image.width = pl.width /\ image.height = pl.height
    /\ Len(image.data) = pl.width * pl.height * 4
    /\ \A y \in 0..(pl.height - 1) : \A k \in 1..(pl.width * 4) :
          image.data[y * pl.width * 4 + k] = pl.data[y * pl.stride + k]
    /\ \A k \in 1..Len(image.data) : image.data[k] % pl.stride < pl.width * 4

\* C10: every buffer load_heic returns, and every buffer the fast path of
\* load_heic_thumbnail returns, is the decoded plane with its stride
\* stripped.
C10_StrideStripped ==
    /\ fullImage.some => StrideStripped(fullImage.val, heicFile.plane.val)
    /\ (hresult.kind = "Ok" /\ ~fullImage.some) =>
          StrideStripped(hresult.image, thumbPlane.val)

\* C10 witness: the fast path returned a thumbnail of two rows or more whose
\* plane had padded rows.
C10_PaddedThumbnailReturned ==
    /\ hresult.kind = "Ok" /\ ~fullImage.some
    /\ thumbPlane.val.stride > thumbPlane.val.width * 4
    /\ thumbPlane.val.height >= 2

\* The fallback alone keeps the longer side within max_size.
FallbackWithinMaxSize ==
    (hresult.kind = "Ok" /\ fullImage.some) =>
        Max(hresult.image.width, hresult.image.height) <= max_size


(***************************************************************************)
(* Claims about load_image's orientation (checked under SpecExif)          *)
(***************************************************************************)

\* The documented transform of an orientation tag, by the position in the
\* source of the pixel that the result shows at (x, y); w and h are the
\* source's width and height.
\*   1 identity, 2 horizontal flip, 3 rotation by 180, 4 vertical flip,
\*   5 rotation by 90 clockwise then horizontal flip (the transpose),
\*   6 rotation by 90 clockwise, 7 rotation by 270 clockwise then horizontal
\*   flip (the transverse), 8 rotation by 270 clockwise; else identity.
SourceOf(tag, x, y, w, h) ==
    CASE tag = 2 -> <<w - 1 - x, y>>
      [] tag = 3 -> <<w - 1 - x, h - 1 - y>>
      [] tag = 4 -> <<x, h - 1 - y>>
      [] tag = 5 -> <<y, x>>
      [] tag = 6 -> <<y, h - 1 - x>>
      [] tag = 7 -> <<w - 1 - y, h - 1 - x>>
      [] tag = 8 -> <<w - 1 - y, x>>
      [] OTHER -> <<x, y>>

SwapsSides(tag) == tag \in 5..8

\* The tag the file's EXIF data asks for; identity (1) without one.
TagOf(exif) == IF exif.kind = "orientation" THEN exif.value ELSE 1

\* C9: for a non-HEIC input that decodes (and whose file opens for the EXIF
\* read), load_image returns the image transformed as documented for its
\* orientation tag: tags 5 to 8 swap width and height, tags 1 to 4 keep
\* them, every pixel comes from the documented place, and any other value, a
\* missing tag or missing metadata returns the decoded image unchanged,
\* without an error.
C9_OrientationAsDocumented ==
    (xpc = "done" /\ ~IsHeic(ToLowercase(xext)) /\ xdecoded.some
       /\ xexif.kind # "open_error") =>
        LET src == xdecoded.val
            tag == TagOf(xexif)
        IN  /\ xresult.kind = "Ok"
            /\ xresult.image.width = (IF SwapsSides(tag) THEN src.height ELSE src.width)
            /\ xresult.image.height = (IF SwapsSides(tag) THEN src.width ELSE src.height)
            /\ DOMAIN xresult.image.px = Coords(xresult.image.width, xresult.image.height)
            /\ \A c \in DOMAIN xresult.image.px :
                  xresult.image.px[c] = src.px[SourceOf(tag, c[1], c[2], src.width, src.height)]
            /\ (xexif.kind # "orientation" \/ xexif.value \notin 1..8) =>
                  xresult.image = src

\* C9 witness: a 2x1 image with orientation 5 came back as a 1x2 image.
C9_Tag5SwapsSides ==
    /\ xpc = "done" /\ ~IsHeic(ToLowercase(xext)) /\ xresult.kind = "Ok"
    /\ xexif = [kind |-> "orientation", value |-> 5]
    /\ xdecoded.val.width = 2 /\ xdecoded.val.height = 1
    /\ xresult.image.width = 1 /\ xresult.image.height = 2

(***************************************************************************)
(* Claims about estimate_size (checked under SpecEstimate)                 *)
(***************************************************************************)

\* Two JPEG estimates of the image, the first at the lower quality.
TwoJpegCalls ==
    /\ est_format = "jpeg" /\ Len(est_calls) = 2
    /\ est_calls[1].quality < est_calls[2].quality

\* C7 as claimed: for every width, height and qualities q1 < q2 in 0..100 the
\* JPEG estimate at q1 is less than the estimate at q2; here for the images
\* of one pixel or more.
C7_StrictlyMonotonic ==
    (TwoJpegCalls /\ est_width >= 1 /\ est_height >= 1) =>
        est_calls[1].bytes < est_calls[2].bytes

\* C7 amended: for q1 < q2 in 0..100 the JPEG estimate at q1 is at most the
\* estimate at q2, and it is less when the image has 41 pixels or more.
C7_MonotonicStrictFrom41Pixels ==
    TwoJpegCalls =>
        /\ est_calls[1].bytes <= est_calls[2].bytes
        /\ est_width * est_height >= 41 => est_calls[1].bytes < est_calls[2].bytes

\* C7 witness: an image of 41 pixels or more, estimated at two qualities one
\* apart, the second estimate being the larger.
C7_LargeImageTwoQualities ==
    /\ TwoJpegCalls /\ est_width * est_height >= 41
    /\ est_calls[2].quality = est_calls[1].quality + 1
    /\ est_calls[1].bytes < est_calls[2].bytes

====
